---------------------------- MODULE Spec2Model ----------------------------
(***************************************************************************)
(* The RFB (VNC) client of packages/tools: vnc-control.py (VNCConnection   *)
(* and main) and src/vnc-screenshot.py (capture_vnc_screenshot).           *)
(*                                                                         *)
(* The server is a byte stream: `stream' holds the bytes the server sends  *)
(* that the client has not read yet.  sock.recv(n) returns between 1 and n *)
(* of them, b'' when the peer closes (the bytes not yet delivered are      *)
(* lost), or raises socket.timeout when nothing arrives in time.  Every    *)
(* handshake step is one call on the socket together with the pure code    *)
(* that follows it up to the next call.                                    *)
(***************************************************************************)
EXTENDS Integers, Sequences, FiniteSets, TLC

VARIABLES
    tool,         \* "control" (vnc-control.py) or "screenshot" (vnc-screenshot.py)
    action,       \* sys.argv[4] of vnc-control.py, "" until main looks at it
    params,       \* the arguments of the operation main calls (from sys.argv[5:])
    calls,        \* number of input operations called on the connection
    pc,           \* position of the client in its code
    password,     \* self.password / password, as bytes (utf-8)
    stream,       \* bytes sent by the server, not yet read by the client
    peer,         \* "up" or "closed": whether the server has closed the connection
    shorts,       \* the reads that returned fewer bytes than were there (short reads)
    srv,          \* the handshake script the server plays (what it put on the wire)
    upd,          \* the messages the server answers a capture with
    sock,         \* "none", "open", "closed": the client's socket
    closes,       \* number of sock.close() calls made
    sent,         \* every message written by the client, in order
    steps,        \* the handshake's socket calls, in order
    width,        \* self.width / width
    height,       \* self.height / height
    name,         \* self.name / name
    err,          \* the exception raised, [kind |-> "none"] when none
    loc,          \* connect's locals: num_types, err_len, sel, challenge, name_len
    framebuffer,  \* local framebuffer (bytearray)
    rectsLeft,    \* rectangles of the update still to read
    consumed,     \* bytes read by the receive loop of the capture
    loopEnd,      \* how the receive loop ended: "none", "update", "unknown"
    updates       \* number of FramebufferUpdate messages dispatched

vars == <<tool, action, params, calls, pc, password, stream, peer, shorts, srv, upd, sock, closes, sent, steps,
          width, height, name, err, loc,
          framebuffer, rectsLeft, consumed, loopEnd, updates>>

-----------------------------------------------------------------------------
(* Bounds of the model.                                                    *)

MaxShort == 1      \* most reads of a run that return fewer bytes than are there
MaxTypes == 2      \* longest list of offered security types
MaxReason == 2     \* longest rejection reason
MaxName == 1       \* longest server name
MaxCoord == 2      \* largest w, h of a rectangle and of a display
MaxRects == 2      \* most rectangles in one update
MaxPwLen == 9       \* longest password, in bytes
MaxPre == 2        \* most messages before the update

(* Program constants.                                                      *)

VersionLen == 12       \* sock.recv(12)
ChallengeLen == 16     \* sock.recv(16)
ServerInitLen == 24    \* sock.recv(24)
BytesPerPixel == 4     \* bytearray(width * height * 4)
RectHeaderLen == 12    \* recv_exact(12)

-----------------------------------------------------------------------------
(* Bytes and struct.pack / struct.unpack.                                  *)

Min(a, b) == IF a < b THEN a ELSE b
Max(a, b) == IF a > b THEN a ELSE b

\* s[a:b] of Python for 0 <= a <= b (indices clamp to the length)
Slice(s, a, b) == SubSeq(s, Min(a, Len(s)) + 1, Min(b, Len(s)))

Rep(b, n) == [i \in 1..n |-> b]

SeqsUpTo(S, n) == UNION {[1..k -> S] : k \in 0..n}

Range(s) == {s[i] : i \in 1..Len(s)}

\* struct.pack('>H', v), struct.pack('>I', v)
PackU16(v) == <<(v \div 256) % 256, v % 256>>
PackU32(v) == <<(v \div 16777216) % 256, (v \div 65536) % 256, (v \div 256) % 256, v % 256>>
\* struct.pack('>i', v): two's complement (v + 2^31 is taken first, numbers stay below 2^31)
PackI32(v) ==
    IF v >= 0 THEN PackU32(v)
    ELSE <<128 + ((v + 2147483647 + 1) \div 16777216)>> \o Tail(PackU32(v + 2147483647 + 1))

\* struct.unpack: defined only on a buffer of the exact size (struct.error otherwise)
CanUnpack(b, n) == Len(b) = n
UnpackU8(b) == b[1]
UnpackU16(b) == b[1] * 256 + b[2]
\* '>I': values of 2^31 and more are kept as 2^31 - 1, the largest number of the
\* checker; they are only lengths no stream here reaches and non-zero result codes
UnpackU32(b) ==
    IF b[1] >= 128 THEN 2147483647 ELSE ((b[1] * 256 + b[2]) * 256 + b[3]) * 256 + b[4]
\* '>i'
UnpackI32(b) ==
    IF b[1] >= 128 THEN (((b[1] - 256) * 256 + b[2]) * 256 + b[3]) * 256 + b[4]
                   ELSE UnpackU32(b)

\* bytes.decode('utf-8', errors='replace') on ASCII bytes and lone invalid bytes
Decode(b) == [i \in 1..Len(b) |-> IF b[i] < 128 THEN b[i] ELSE 65533]

\* b'RFB 003.008\n'
ClientVersion == <<82, 70, 66, 32, 48, 48, 51, 46, 48, 48, 56, 10>>

NoErr == [kind |-> "none", data |-> <<>>]
Raise(kind, data) == [kind |-> kind, data |-> data]

-----------------------------------------------------------------------------
(* VNCAuth: key derivation and the response.                               *)

Password == <<112, 119>>        \* sys.argv[3], here "pw"

\* the passwords of the key derivation's own check: up to MaxPwLen bytes of PwBytes
PwBytes == {112, 193}
Passwords == SeqsUpTo(PwBytes, MaxPwLen)

RECURSIVE RevBits(_, _)
\* int('{:08b}'.format(b)[::-1], 2): the n low bits of b in reverse order
RevBits(b, n) == IF n = 0 THEN 0 ELSE (b % 2) * (2 ^ (n - 1)) + RevBits(b \div 2, n - 1)

\* key = (password.encode('utf-8') + b'\x00' * 8)[:8]
PadKey(pw) == Slice(pw \o Rep(0, 8), 0, 8)

\* the key bytes handed to DES as they are
KeyAsGiven(key) == key

\* reversed_key of vnc_des_encrypt
ReversedKey(key) == [i \in 1..Len(key) |-> RevBits(key[i], 8)]

\* DES in ECB mode is the library's: a block is kept as (key, plaintext); data that
\* is not a multiple of 8 bytes raises ValueError, empty data encrypts to b''
DesAligned(data) == Len(data) % 8 = 0
vnc_des_encrypt(key, data) ==
    IF data = <<>> THEN <<>> ELSE << [key |-> ReversedKey(key), block |-> data] >>

\* response = vnc_des_encrypt(key, challenge[:8]) + vnc_des_encrypt(key, challenge[8:16])
Response(pw, chal) ==
    vnc_des_encrypt(PadKey(pw), Slice(chal, 0, 8)) \o vnc_des_encrypt(PadKey(pw), Slice(chal, 8, 16))

-----------------------------------------------------------------------------
(* The server's side of the handshake.                                     *)

SecTypePool == {1, 2, 5}
ResultCodes == {0, 1, 16777216}
TextBytes == {65, 255}
NameBytes == {66}
DisplaySizes == {<<2, 2>>, <<1, 2>>}
ServerVersion == <<82, 70, 66, 32, 48, 48, 51, 46, 48, 48, 56, 10>>
ServerChallenge == [i \in 1..ChallengeLen |-> IF i \in 9..12 THEN 0 ELSE i]

\* ServerInit: u16 width, u16 height, bpp, depth, big-endian, true-colour,
\* 3 x u16 max, 3 x u8 shift, 3 pad, u32 name length, name
ServerInitBytes(w, h, nm) ==
    PackU16(w) \o PackU16(h) \o <<32, 24, 0, 1>> \o PackU16(255) \o PackU16(255) \o PackU16(255)
        \o <<16, 8, 0>> \o <<0, 0, 0>> \o PackU32(Len(nm)) \o nm

HandshakeScripts ==
    {[types |-> <<>>, reason |-> r, chal |-> <<>>, result |-> 0, w |-> 0, h |-> 0, name |-> <<>>] :
        r \in SeqsUpTo(TextBytes, MaxReason)}
    \cup
    UNION {
      {[types |-> t, reason |-> <<>>, chal |-> IF 2 \in Range(t) THEN ServerChallenge ELSE <<>>,
        result |-> rc, w |-> d[1], h |-> d[2], name |-> nm] :
          rc \in (IF 2 \in Range(t) THEN ResultCodes ELSE {0}),
          d \in DisplaySizes, nm \in SeqsUpTo(NameBytes, MaxName)} :
      t \in SeqsUpTo(SecTypePool, MaxTypes) \ {<<>>}}

\* the bytes a server playing script s puts on the wire
ScriptBytes(s) ==
    ServerVersion \o <<Len(s.types)>> \o
    (IF s.types = <<>>
        THEN PackU32(Len(s.reason)) \o s.reason
        ELSE s.types
             \o (IF 2 \in Range(s.types) THEN s.chal \o PackU32(s.result) ELSE <<>>)
             \o ServerInitBytes(s.w, s.h, s.name))

-----------------------------------------------------------------------------
(* socket.recv                                                             *)

\* the sizes sock.recv(n) may return when bytes are there: all of them up to n, or
\* fewer (a short read: of one byte, of half of them, of all but one)
ChunkSizes(n) ==
    LET m == Min(n, Len(stream))
    IN {j \in 1..m : j = m \/ (Len(shorts) < MaxShort /\ j \in {1, m \div 2, m - 1})}

\* a socket without a timeout: a call that gets nothing waits
NoSocketTimeout == {}

\* sock.settimeout(15): a call on the socket that gets nothing within 15 seconds raises
\* socket.timeout
SocketTimeouts == {"timeout"}

\* the outcomes of sock.recv(n): [k |-> bytes returned, what |-> "data", "eof", "timeout"]
RecvOutcomes(n) ==
    IF n = 0 THEN {[k |-> 0, what |-> "data"]}
    ELSE {[k |-> j, what |-> "data"] : j \in ChunkSizes(n)}
         \cup (IF peer = "up" THEN {[k |-> 0, what |-> t] : t \in SocketTimeouts} ELSE {})
         \cup {[k |-> 0, what |-> "eof"]}

Data(o) == SubSeq(stream, 1, o.k)
Rest(o) == IF o.what = "eof" THEN <<>> ELSE SubSeq(stream, o.k + 1, Len(stream))
PeerAfter(o) == IF o.what = "eof" THEN "closed" ELSE peer
ShortAfter(o, n, s) ==
    IF o.what = "data" /\ o.k < Min(n, Len(stream)) THEN Append(shorts, s) ELSE shorts

-----------------------------------------------------------------------------
(* Frames of the actions.                                                  *)

cfgVars == <<tool, srv, password>>
capVars == <<upd, framebuffer, rectsLeft, consumed, loopEnd, updates>>
dispVars == <<width, height, name>>
sockVars == <<sock, closes>>

NoLoc == [num_types |-> 0, err_len |-> 0, sel |-> 0, challenge |-> <<>>, name_len |-> 0]

\* call s, sock.recv(n), returned o: the bytes are consumed
Read(o, n, s) ==
    /\ stream' = Rest(o)
    /\ peer' = PeerAfter(o)
    /\ shorts' = ShortAfter(o, n, s)
    /\ steps' = Append(steps, s)

\* an exception propagates out of connect / the capture
Fail(e) == pc' = "raised" /\ err' = e

Step(s) == steps' = Append(steps, s)
Send(kind, data) == sent' = Append(sent, [kind |-> kind, data |-> data])

-----------------------------------------------------------------------------
(* The handshake: VNCConnection.connect and lines 50-105 of                *)
(* capture_vnc_screenshot, which are the same code.                        *)

\* socket.socket(...); settimeout(15); connect((host, port)): the socket exists, and
\* the connection is made or the attempt times out
Connect ==
    /\ pc = "connect"
    /\ sock' = "open"
    /\ \E k \in {"connected"} \cup SocketTimeouts :
        IF k = "connected" THEN pc' = "rdVersion" /\ err' = err
                           ELSE Fail(Raise(k, <<>>))
    /\ UNCHANGED <<cfgVars, capVars, dispVars, stream, peer, shorts, action, params, calls, closes, sent, steps, loc>>

\* server_version = sock.recv(12)
RecvVersion ==
    /\ pc = "rdVersion"
    /\ \E o \in RecvOutcomes(VersionLen) :
        /\ Read(o, VersionLen, "rdVersion")
        /\ IF o.what = "timeout"
              THEN Fail(Raise("timeout", <<>>))
              ELSE pc' = "wrVersion" /\ err' = err
    /\ UNCHANGED <<cfgVars, capVars, dispVars, sockVars, action, params, calls, sent, loc>>

\* sock.send(b'RFB 003.008\n')
SendVersion ==
    /\ pc = "wrVersion"
    /\ Send("version", ClientVersion)
    /\ Step("wrVersion")
    /\ pc' = "rdNumTypes"
    /\ UNCHANGED <<cfgVars, capVars, dispVars, sockVars, stream, peer, shorts, action, params, calls, err, loc>>

\* num_types = struct.unpack('B', sock.recv(1))[0]; if num_types == 0: ...
RecvNumTypes ==
    /\ pc = "rdNumTypes"
    /\ \E o \in RecvOutcomes(1) :
        /\ Read(o, 1, "rdNumTypes")
        /\ IF o.what = "timeout" THEN Fail(Raise("timeout", <<>>)) /\ loc' = loc
           ELSE IF ~CanUnpack(Data(o), 1) THEN Fail(Raise("struct", <<>>)) /\ loc' = loc
           ELSE /\ loc' = [loc EXCEPT !.num_types = UnpackU8(Data(o))]
                /\ pc' = IF UnpackU8(Data(o)) = 0 THEN "rdErrLen" ELSE "rdSecTypes"
                /\ err' = err
    /\ UNCHANGED <<cfgVars, capVars, dispVars, sockVars, action, params, calls, sent>>

\* err_len = struct.unpack('>I', sock.recv(4))[0]
RecvErrLen ==
    /\ pc = "rdErrLen"
    /\ \E o \in RecvOutcomes(4) :
        /\ Read(o, 4, "rdErrLen")
        /\ IF o.what = "timeout" THEN Fail(Raise("timeout", <<>>)) /\ loc' = loc
           ELSE IF ~CanUnpack(Data(o), 4) THEN Fail(Raise("struct", <<>>)) /\ loc' = loc
           ELSE /\ loc' = [loc EXCEPT !.err_len = UnpackU32(Data(o))]
                /\ pc' = "rdErrMsg"
                /\ err' = err
    /\ UNCHANGED <<cfgVars, capVars, dispVars, sockVars, action, params, calls, sent>>

\* err_msg = sock.recv(err_len).decode(...); raise Exception(f"VNC error: {err_msg}")
RecvErrMsg ==
    /\ pc = "rdErrMsg"
    /\ \E o \in RecvOutcomes(loc.err_len) :
        /\ Read(o, loc.err_len, "rdErrMsg")
        /\ IF o.what = "timeout" THEN Fail(Raise("timeout", <<>>))
           ELSE Fail(Raise("rejected", Decode(Data(o))))
    /\ UNCHANGED <<cfgVars, capVars, dispVars, sockVars, action, params, calls, sent, loc>>

\* if 2 in security_types: 2  elif 1 in security_types: 1  else: raise (0 here)
SelectSecurityType(types) ==
    IF 2 \in Range(types) THEN 2 ELSE IF 1 \in Range(types) THEN 1 ELSE 0

\* security_types = list(sock.recv(num_types)) and the choice made on it
RecvSecTypes ==
    /\ pc = "rdSecTypes"
    /\ \E o \in RecvOutcomes(loc.num_types) :
        /\ Read(o, loc.num_types, "rdSecTypes")
        /\ IF o.what = "timeout" THEN Fail(Raise("timeout", <<>>)) /\ loc' = loc
           ELSE IF SelectSecurityType(Data(o)) = 0
                   THEN Fail(Raise("unsupported", Data(o))) /\ loc' = loc
           ELSE /\ loc' = [loc EXCEPT !.sel = SelectSecurityType(Data(o))]
                /\ pc' = "wrSecType"
                /\ err' = err
    /\ UNCHANGED <<cfgVars, capVars, dispVars, sockVars, action, params, calls, sent>>

\* AfterSecType with the authentication left out
\* a client that goes from the selection straight to ClientInit, whatever it selected
AfterSecTypeNoAuth(sel) == "wrClientInit"

\* what follows the selection: the challenge for VNCAuth (2), ClientInit for None (1)
AfterSecType(sel) == IF sel = 2 THEN "rdChallenge" ELSE "wrClientInit"

\* sock.send(struct.pack('B', 2)) / sock.send(struct.pack('B', 1))
SendSecType ==
    /\ pc = "wrSecType"
    /\ Send("sectype", <<loc.sel>>)
    /\ Step("wrSecType")
    /\ pc' = AfterSecType(loc.sel)
    /\ UNCHANGED <<cfgVars, capVars, dispVars, sockVars, stream, peer, shorts, action, params, calls, err, loc>>

\* challenge = sock.recv(16); key = ...; response = ... (DES raises on a ragged block)
RecvChallenge ==
    /\ pc = "rdChallenge"
    /\ \E o \in RecvOutcomes(ChallengeLen) :
        /\ Read(o, ChallengeLen, "rdChallenge")
        /\ IF o.what = "timeout" THEN Fail(Raise("timeout", <<>>)) /\ loc' = loc
           ELSE IF ~(DesAligned(Slice(Data(o), 0, 8)) /\ DesAligned(Slice(Data(o), 8, 16)))
                   THEN Fail(Raise("value", <<>>)) /\ loc' = loc
           ELSE /\ loc' = [loc EXCEPT !.challenge = Data(o)]
                /\ pc' = "wrResponse"
                /\ err' = err
    /\ UNCHANGED <<cfgVars, capVars, dispVars, sockVars, action, params, calls, sent>>

\* sock.send(response)
SendResponse ==
    /\ pc = "wrResponse"
    /\ Send("response", Response(password, loc.challenge))
    /\ Step("wrResponse")
    /\ pc' = "rdAuthResult"
    /\ UNCHANGED <<cfgVars, capVars, dispVars, sockVars, stream, peer, shorts, action, params, calls, err, loc>>

\* auth_result = struct.unpack('>I', sock.recv(4))[0]; if auth_result != 0: raise
AuthOk(result) == result = 0

RecvAuthResult ==
    /\ pc = "rdAuthResult"
    /\ \E o \in RecvOutcomes(4) :
        /\ Read(o, 4, "rdAuthResult")
        /\ IF o.what = "timeout" THEN Fail(Raise("timeout", <<>>))
           ELSE IF ~CanUnpack(Data(o), 4) THEN Fail(Raise("struct", <<>>))
           ELSE IF ~AuthOk(UnpackU32(Data(o))) THEN Fail(Raise("authfailed", Data(o)))
           ELSE pc' = "wrClientInit" /\ err' = err
    /\ UNCHANGED <<cfgVars, capVars, dispVars, sockVars, action, params, calls, sent, loc>>

\* sock.send(struct.pack('B', 1))
SendClientInit ==
    /\ pc = "wrClientInit"
    /\ Send("clientinit", <<1>>)
    /\ Step("wrClientInit")
    /\ pc' = "rdServerInit"
    /\ UNCHANGED <<cfgVars, capVars, dispVars, sockVars, stream, peer, shorts, action, params, calls, err, loc>>

\* server_init = sock.recv(24); width, height = unpack('>HH', server_init[:4]);
\* name_len = unpack('>I', server_init[20:24])[0]
RecvServerInit ==
    /\ pc = "rdServerInit"
    /\ \E o \in RecvOutcomes(ServerInitLen) :
        /\ Read(o, ServerInitLen, "rdServerInit")
        /\ IF o.what = "timeout"
              THEN Fail(Raise("timeout", <<>>)) /\ UNCHANGED <<width, height, loc>>
           ELSE IF ~CanUnpack(Slice(Data(o), 0, 4), 4)
              THEN Fail(Raise("struct", <<>>)) /\ UNCHANGED <<width, height, loc>>
           ELSE /\ width' = UnpackU16(Slice(Data(o), 0, 2))
                /\ height' = UnpackU16(Slice(Data(o), 2, 4))
                /\ IF ~CanUnpack(Slice(Data(o), 20, 24), 4)
                      THEN Fail(Raise("struct", <<>>)) /\ loc' = loc
                      ELSE /\ loc' = [loc EXCEPT !.name_len = UnpackU32(Slice(Data(o), 20, 24))]
                           /\ pc' = "rdName"
                           /\ err' = err
    /\ UNCHANGED <<cfgVars, capVars, sockVars, action, params, calls, sent, name>>

\* name = sock.recv(name_len).decode('utf-8', errors='replace')
RecvName ==
    /\ pc = "rdName"
    /\ \E o \in RecvOutcomes(loc.name_len) :
        /\ Read(o, loc.name_len, "rdName")
        /\ IF o.what = "timeout" THEN Fail(Raise("timeout", <<>>)) /\ name' = name
           ELSE name' = Decode(Data(o)) /\ pc' = "ready" /\ err' = err
    /\ UNCHANGED <<cfgVars, capVars, sockVars, action, params, calls, sent, width, height, loc>>

-----------------------------------------------------------------------------
(* The server's side of a capture.                                         *)

RawEncoding == 0
UnsupportedEncoding == -223

\* the payload the server sends for the i-th rectangle of an update: w*h*4 bytes,
\* every byte of every rectangle different
Payload(i, r) == [j \in 1..(r.w * r.h * BytesPerPixel) |-> 50 * i + j]

RectBytes(i, r) ==
    PackU16(r.x) \o PackU16(r.y) \o PackU16(r.w) \o PackU16(r.h) \o PackI32(r.enc)
        \o (IF r.enc = RawEncoding THEN Payload(i, r) ELSE <<>>)

RECURSIVE RectsBytes(_, _)
RectsBytes(rects, i) ==
    IF i > Len(rects) THEN <<>> ELSE RectBytes(i, rects[i]) \o RectsBytes(rects, i + 1)

\* FramebufferUpdate: type 0, 1 pad, u16 count, the rectangles
UpdateBytes(rects) == <<0, 0>> \o PackU16(Len(rects)) \o RectsBytes(rects, 1)

\* SetColorMapEntries (1): pad, u16 first, u16 count, count*6 bytes; Bell (2);
\* ServerCutText (3): 3 pad, u32 length, text
PreBytes(m) ==
    IF m.t = 1 THEN <<1, 0>> \o PackU16(0) \o PackU16(m.n) \o Rep(9, m.n * 6)
    ELSE IF m.t = 2 THEN <<2>>
    ELSE <<3, 0, 0, 0>> \o PackU32(m.n) \o Rep(65, m.n)

RECURSIVE PresBytes(_, _)
PresBytes(pre, i) ==
    IF i > Len(pre) THEN <<>> ELSE PreBytes(pre[i]) \o PresBytes(pre, i + 1)

\* what the server sends after the update request: the messages pre, then an update
\* (fin = "update"), a message of an unknown type (fin = "unknown", its type in code)
\* or nothing more (fin = "none"), then the bytes tail
CapBytes(u) ==
    PresBytes(u.pre, 1)
        \o (IF u.fin = "update" THEN UpdateBytes(u.rects)
            ELSE IF u.fin = "unknown" THEN <<u.code>> ELSE <<>>)
        \o u.tail

Rect(x, y, w, h, enc) == [x |-> x, y |-> y, w |-> w, h |-> h, enc |-> enc]
Script(pre, fin, code, rects, tail) ==
    [pre |-> pre, fin |-> fin, code |-> code, rects |-> rects, tail |-> tail]
NoScript == Script(<<>>, "none", 0, <<>>, <<>>)

FullRect == Rect(0, 0, 2, 2, RawEncoding)
OneRect == Rect(0, 0, 1, 1, RawEncoding)
SkippedRect == Rect(0, 0, 1, 1, UnsupportedEncoding)
SecondUpdate == UpdateBytes(<<OneRect>>)

\* where the server puts a rectangle: on the displays of DisplaySizes, at their right
\* edge and below their bottom edge
Positions == {<<x, y>> : x \in 0..1, y \in 0..2}

\* rectangles of the sizes up to MaxCoord at these positions, an empty one, and one
\* that is not Raw
RectPool ==
    {Rect(p[1], p[2], w, h, RawEncoding) : p \in Positions, w \in 1..MaxCoord, h \in 1..MaxCoord}
    \cup {Rect(0, 0, 0, 0, RawEncoding), SkippedRect}

\* updates of up to MaxRects rectangles: the last two are any of RectPool, the ones
\* before them repaint the background
RectScripts ==
    {Script(<<>>, "update", 0, Rep(FullRect, k) \o rs, <<>>) :
        k \in 0..(MaxRects - 2), rs \in SeqsUpTo(RectPool, 2)}

PreMsgs == {[t |-> 1, n |-> 0], [t |-> 1, n |-> 1], [t |-> 2, n |-> 0],
            [t |-> 3, n |-> 0], [t |-> 3, n |-> 1]}
UnknownTypes == {4, 255}

\* up to MaxPre other messages, then an update, an unknown message or silence
PreScripts ==
    {Script(pre, "update", 0, rs, tl) :
        pre \in SeqsUpTo(PreMsgs, MaxPre),
        rs \in {<<>>, <<OneRect>>, <<SkippedRect, OneRect>>},
        tl \in {<<>>, SecondUpdate}}
    \cup {Script(pre, "unknown", c, <<>>, tl) :
        pre \in SeqsUpTo(PreMsgs, MaxPre), c \in UnknownTypes, tl \in {<<>>, SecondUpdate}}
    \cup {Script(pre, "none", 0, <<>>, <<>>) : pre \in SeqsUpTo(PreMsgs, MaxPre)}

CaptureScripts == RectScripts \cup PreScripts

\* the few answers played after a full handshake
FewScripts ==
    {Script(<<[t |-> 2, n |-> 0]>>, "update", 0, <<OneRect>>, SecondUpdate),
     Script(<<[t |-> 1, n |-> 1]>>, "unknown", 4, <<>>, <<>>),
     Script(<<[t |-> 3, n |-> 1]>>, "update", 0, <<SkippedRect, OneRect>>, <<>>),
     NoScript}

-----------------------------------------------------------------------------
(* The capture: VNCConnection.capture_screenshot and lines 109-187 of      *)
(* capture_vnc_screenshot.                                                 *)

\* struct.pack('>Bxxx', 0) + struct.pack('>BBBBHHHBBBxxx', 32, 24, 0, 1, 255, 255, 255, 16, 8, 0)
SetPixelFormat ==
    <<0, 0, 0, 0>> \o <<32, 24, 0, 1>> \o PackU16(255) \o PackU16(255) \o PackU16(255)
        \o <<16, 8, 0>> \o <<0, 0, 0>>

\* struct.pack('>BxH', 2, 1) + struct.pack('>i', 0)
SetEncodings == <<2, 0>> \o PackU16(1) \o PackI32(0)

\* a request with the incremental flag set
UpdateRequestIncremental(w, h) == <<3, 1>> \o PackU16(0) \o PackU16(0) \o PackU16(w) \o PackU16(h)

\* struct.pack('>BBHHHH', 3, 0, 0, 0, width, height)
UpdateRequest(w, h) == <<3, 0>> \o PackU16(0) \o PackU16(0) \o PackU16(w) \o PackU16(h)

\* framebuffer[a:b] = data of a bytearray, 0 <= a <= b: the indices clamp to the length
SliceAssign(fb, a, b, data) == Slice(fb, 0, a) \o data \o SubSeq(fb, Min(b, Len(fb)) + 1, Len(fb))

\* an offset that leaves the row out: every row of a rectangle lands on its first
DstOffsetFirstRow(rx, ry, row, w) == (ry * w + rx) * BytesPerPixel

\* dst_off = ((ry + row) * width + rx) * 4
DstOffset(rx, ry, row, w) == ((ry + row) * w + rx) * BytesPerPixel

RECURSIVE CopyRows(_, _, _, _, _)
\* for row in range(rh): framebuffer[dst:dst + rw*4] = rect_data[src:src + rw*4]
CopyRows(fb, data, r, row, w) ==
    IF row >= r.h THEN fb
    ELSE CopyRows(SliceAssign(fb, DstOffset(r.x, r.y, row, w),
                              DstOffset(r.x, r.y, row, w) + r.w * BytesPerPixel,
                              Slice(data, row * r.w * BytesPerPixel,
                                    row * r.w * BytesPerPixel + r.w * BytesPerPixel)),
                  data, r, row + 1, w)

\* struct.unpack('>HHHHi', recv_exact(12))
UnpackRect(b) ==
    Rect(UnpackU16(SubSeq(b, 1, 2)), UnpackU16(SubSeq(b, 3, 4)), UnpackU16(SubSeq(b, 5, 6)),
         UnpackU16(SubSeq(b, 7, 8)), UnpackI32(SubSeq(b, 9, 12)))

\* recv_exact(n) returns when n bytes have arrived
Has(n) == Len(stream) >= n
Take(n) == SubSeq(stream, 1, n)
Drop(n) == SubSeq(stream, n + 1, Len(stream))
Consume(n) == stream' = Drop(n) /\ consumed' = consumed + n

\* the three requests (SetPixelFormat, SetEncodings, FramebufferUpdateRequest) and
\* framebuffer = bytearray(width * height * 4); the server answers with one of pool
CapSend(pool) ==
    /\ pc = "capSend"
    /\ width <= MaxCoord /\ height <= MaxCoord      \* the displays the model holds
    /\ sent' = sent \o <<[kind |-> "setpixelformat", data |-> SetPixelFormat],
                         [kind |-> "setencodings", data |-> SetEncodings],
                         [kind |-> "updaterequest", data |-> UpdateRequest(width, height)]>>
    /\ framebuffer' = Rep(0, width * height * BytesPerPixel)
    /\ \E u \in (IF peer = "up" THEN pool ELSE {NoScript}) :
        /\ upd' = u
        /\ stream' = stream \o CapBytes(u)
    /\ pc' = "loop"
    /\ UNCHANGED <<cfgVars, dispVars, sockVars, peer, shorts, action, params, calls, steps, err, loc,
                   rectsLeft, consumed, loopEnd, updates>>

\* a loop without the break after the rectangles: it reads the next message
LoopGoesOn == "loop"

\* the break after the rectangles of the update
LoopAfterUpdate == "afterLoop"

\* msg_type == 0: padding, num_rects

CapUpdate ==
    /\ pc = "loop"
    /\ Has(4) /\ Take(1) = <<0>>
    /\ Consume(4)
    /\ updates' = updates + 1
    /\ rectsLeft' = UnpackU16(SubSeq(stream, 3, 4))
    /\ IF UnpackU16(SubSeq(stream, 3, 4)) = 0
          THEN pc' = LoopAfterUpdate /\ loopEnd' = "update"
          ELSE pc' = "rects" /\ loopEnd' = loopEnd
    /\ UNCHANGED <<cfgVars, dispVars, sockVars, peer, shorts, action, params, calls, upd, sent, steps, err, loc, framebuffer>>

\* what follows a rectangle whose encoding is not Raw: vnc-screenshot.py breaks out
\* of the rectangles, vnc-control.py goes on to the next one
AfterUnsupported(t, left) == IF t = "screenshot" THEN 0 ELSE left - 1

\* one rectangle: its header and, when Raw, its pixels copied row by row
CapRect ==
    /\ pc = "rects"
    /\ Has(RectHeaderLen)
    /\ LET r == UnpackRect(Take(RectHeaderLen))
           n == r.w * r.h * BytesPerPixel
           left == IF r.enc = RawEncoding THEN rectsLeft - 1
                                          ELSE AfterUnsupported(tool, rectsLeft)
       IN /\ IF r.enc = RawEncoding
                THEN /\ Has(RectHeaderLen + n)
                     /\ Consume(RectHeaderLen + n)
                     /\ framebuffer' = CopyRows(framebuffer,
                                                SubSeq(stream, RectHeaderLen + 1, RectHeaderLen + n),
                                                r, 0, width)
                ELSE /\ Consume(RectHeaderLen)
                     /\ framebuffer' = framebuffer
          /\ rectsLeft' = left
          /\ IF left = 0
                THEN pc' = LoopAfterUpdate /\ loopEnd' = "update"
                ELSE pc' = "rects" /\ loopEnd' = loopEnd
    /\ UNCHANGED <<cfgVars, dispVars, sockVars, peer, shorts, action, params, calls, upd, sent, steps, err, loc, updates>>

\* a loop that reads the header of SetColorMapEntries and leaves the colours unread
CapColorMapHeaderOnly ==
    /\ pc = "loop"
    /\ Has(6) /\ Take(1) = <<1>>
    /\ Consume(6)
    /\ UNCHANGED <<cfgVars, dispVars, sockVars, peer, shorts, action, params, calls, upd, sent, steps, err, loc,
                   pc, framebuffer, rectsLeft, loopEnd, updates>>

\* msg_type == 1: padding, first, num, num * 6 bytes
CapColorMap ==
    /\ pc = "loop"
    /\ Has(6) /\ Take(1) = <<1>>
    /\ Has(6 + UnpackU16(SubSeq(stream, 5, 6)) * 6)
    /\ Consume(6 + UnpackU16(SubSeq(stream, 5, 6)) * 6)
    /\ UNCHANGED <<cfgVars, dispVars, sockVars, peer, shorts, action, params, calls, upd, sent, steps, err, loc,
                   pc, framebuffer, rectsLeft, loopEnd, updates>>

\* msg_type == 2: pass
CapBell ==
    /\ pc = "loop"
    /\ Has(1) /\ Take(1) = <<2>>
    /\ Consume(1)
    /\ UNCHANGED <<cfgVars, dispVars, sockVars, peer, shorts, action, params, calls, upd, sent, steps, err, loc,
                   pc, framebuffer, rectsLeft, loopEnd, updates>>

\* msg_type == 3: 3 padding bytes, length, text
CapCutText ==
    /\ pc = "loop"
    /\ Has(8) /\ Take(1) = <<3>>
    /\ Has(8 + UnpackU32(SubSeq(stream, 5, 8)))
    /\ Consume(8 + UnpackU32(SubSeq(stream, 5, 8)))
    /\ UNCHANGED <<cfgVars, dispVars, sockVars, peer, shorts, action, params, calls, upd, sent, steps, err, loc,
                   pc, framebuffer, rectsLeft, loopEnd, updates>>

\* a loop that closes the socket on a message of an unknown type
CapUnknownCloses ==
    /\ pc = "loop"
    /\ Has(1) /\ Take(1)[1] \notin {0, 1, 2, 3}
    /\ Consume(1)
    /\ pc' = "afterLoop"
    /\ loopEnd' = "unknown"
    /\ sock' = "closed" /\ closes' = closes + 1
    /\ UNCHANGED <<cfgVars, dispVars, peer, shorts, action, params, calls, upd, sent, steps, err, loc,
                   framebuffer, rectsLeft, updates>>

\* any other msg_type: break
CapUnknown ==
    /\ pc = "loop"
    /\ Has(1) /\ Take(1)[1] \notin {0, 1, 2, 3}
    /\ Consume(1)
    /\ pc' = "afterLoop"
    /\ loopEnd' = "unknown"
    /\ UNCHANGED <<cfgVars, dispVars, sockVars, peer, shorts, action, params, calls, upd, sent, steps, err, loc,
                   framebuffer, rectsLeft, updates>>

\* recv_exact does not get its bytes: the peer closes ("Connection closed") or
\* nothing arrives within the timeout
CapRecvFails ==
    /\ pc \in {"loop", "rects"}
    /\ \E k \in (IF peer = "up" THEN SocketTimeouts \cup {"closed"} ELSE {"closed"}) :
        /\ Fail(Raise(k, <<>>))
        /\ peer' = IF k = "closed" THEN "closed" ELSE peer
    /\ stream' = <<>>
    /\ UNCHANGED <<cfgVars, dispVars, sockVars, shorts, action, params, calls, upd, sent, steps, loc,
                   framebuffer, rectsLeft, consumed, loopEnd, updates>>

-----------------------------------------------------------------------------
(* The input operations of VNCConnection: pointer and key events.          *)

MaxCalls == 2          \* most input operations called on one connection
MaxSteps == 3          \* most intermediate events of a drag, besides the default
DefaultSteps == 20     \* def drag(self, x1, y1, x2, y2, steps=20)

\* the characters of key names and combos, and ord() of each
Printable == " +0123456789ABCDEFGHIJKLMNOPQRSTUVWXYZ_abcdefghijklmnopqrstuvwxyz"
CodePoints ==
    <<32, 43>> \o [i \in 1..10 |-> 47 + i] \o [i \in 1..26 |-> 64 + i] \o <<95>>
        \o [i \in 1..26 |-> 96 + i]

CharAt(s, i) == SubSeq(s, i, i)
Ord(c) == CodePoints[CHOOSE i \in 1..Len(Printable) : CharAt(Printable, i) = c]
Chr(n) == CharAt(Printable, CHOOSE i \in 1..Len(Printable) : CodePoints[i] = n)

\* str.lower()
LowerChar(c) == IF Ord(c) \in 65..90 THEN Chr(Ord(c) + 32) ELSE c
RECURSIVE Lower(_)
Lower(s) == IF s = "" THEN "" ELSE LowerChar(CharAt(s, 1)) \o Lower(SubSeq(s, 2, Len(s)))

\* str.strip()
RECURSIVE Strip(_)
Strip(s) ==
    IF s = "" THEN ""
    ELSE IF CharAt(s, 1) = " " THEN Strip(SubSeq(s, 2, Len(s)))
    ELSE IF CharAt(s, Len(s)) = " " THEN Strip(SubSeq(s, 1, Len(s) - 1))
    ELSE s

\* str.split('+')
RECURSIVE Split(_)
Split(s) ==
    LET at == {i \in 1..Len(s) : CharAt(s, i) = "+"}
        i == CHOOSE i \in at : \A j \in at : i <= j
    IN IF at = {} THEN <<s>>
       ELSE <<SubSeq(s, 1, i - 1)>> \o Split(SubSeq(s, i + 1, Len(s)))

KEYSYM_MAP ==
    "return" :> 65293 @@ "enter" :> 65293 @@ "tab" :> 65289 @@ "escape" :> 65307 @@
    "esc" :> 65307 @@ "backspace" :> 65288 @@ "delete" :> 65535 @@ "space" :> 32 @@
    "up" :> 65362 @@ "down" :> 65364 @@ "left" :> 65361 @@ "right" :> 65363 @@
    "home" :> 65360 @@ "end" :> 65367 @@ "pageup" :> 65365 @@ "pagedown" :> 65366 @@
    "f1" :> 65470 @@ "f2" :> 65471 @@ "f3" :> 65472 @@ "f4" :> 65473 @@
    "f5" :> 65474 @@ "f6" :> 65475 @@ "f7" :> 65476 @@ "f8" :> 65477 @@
    "f9" :> 65478 @@ "f10" :> 65479 @@ "f11" :> 65480 @@ "f12" :> 65481 @@
    "shift" :> 65505 @@ "shift_l" :> 65505 @@ "shift_r" :> 65506 @@ "ctrl" :> 65507 @@
    "control" :> 65507 @@ "ctrl_l" :> 65507 @@ "ctrl_r" :> 65508 @@ "alt" :> 65513 @@
    "option" :> 65513 @@ "alt_l" :> 65513 @@ "alt_r" :> 65514 @@ "cmd" :> 65511 @@
    "command" :> 65511 @@ "meta" :> 65511 @@ "super" :> 65515 @@ "super_l" :> 65515 @@
    "super_r" :> 65516 @@ "insert" :> 65379 @@ "capslock" :> 65509 @@ "numlock" :> 65407

\* KEYSYM_MAP.get(...) returned None and the name is not one character
NoKey == -1

\* press_key: KEYSYM_MAP.get(key_name.lower()), else ord(key_name) of a single character
PressKeysymExact(key_name) ==
    IF key_name \in DOMAIN KEYSYM_MAP THEN KEYSYM_MAP[key_name]
    ELSE IF Len(key_name) = 1 THEN Ord(key_name)
    ELSE NoKey

PressKeysym(key_name) ==
    IF Lower(key_name) \in DOMAIN KEYSYM_MAP THEN KEYSYM_MAP[Lower(key_name)]
    ELSE IF Len(key_name) = 1 THEN Ord(key_name)
    ELSE NoKey

\* key_combo: parts = combo.lower().split('+'), each part stripped
ComboParts(combo) ==
    LET parts == Split(Lower(combo)) IN [i \in 1..Len(parts) |-> Strip(parts[i])]

\* key_combo: KEYSYM_MAP.get(part), else ord(part) of a single character
ComboKeysym(part) ==
    IF part \in DOMAIN KEYSYM_MAP THEN KEYSYM_MAP[part]
    ELSE IF Len(part) = 1 THEN Ord(part)
    ELSE NoKey

\* the events written: [key, down] for a KeyEvent, [x, y, mask] for a PointerEvent
Key(key, down) == [key |-> key, down |-> down]
Pointer(x, y, mask) == [x |-> x, y |-> y, mask |-> mask]

\* send_key_event: struct.pack('>BBxxI', 4, 1 if down else 0, key)
KeyEvent(e) ==
    [kind |-> "key", data |-> <<4, IF e.down THEN 1 ELSE 0, 0, 0>> \o PackU32(e.key)]
KeyEvents(evs) == [i \in 1..Len(evs) |-> KeyEvent(evs[i])]

\* send_pointer_event: struct.pack('>BBHH', 5, button_mask, x, y), which raises
\* struct.error for a mask outside a byte or a coordinate outside 16 bits
CanPackPointer(e) == e.mask \in 0..255 /\ e.x \in 0..65535 /\ e.y \in 0..65535
PointerEvent(e) == [kind |-> "pointer", data |-> <<5, e.mask>> \o PackU16(e.x) \o PackU16(e.y)]

Reverse(s) == [i \in 1..Len(s) |-> s[Len(s) + 1 - i]]

\* a key_combo that releases the keys in the order it pressed them
ReleasesInOrder(keys) == [i \in 1..Len(keys) |-> Key(keys[i], FALSE)]

\* for k in reversed(keys): self.send_key_event(k, False)
Releases(keys) == [i \in 1..Len(keys) |-> Key(Reverse(keys)[i], FALSE)]

\* for k in keys: self.send_key_event(k, True)
Presses(keys) == [i \in 1..Len(keys) |-> Key(keys[i], TRUE)]

\* the first part of a combo that does not resolve, 0 when all do
FirstUnknown(parts) ==
    LET bad == {i \in 1..Len(parts) : ComboKeysym(parts[i]) = NoKey}
    IN IF bad = {} THEN 0 ELSE CHOOSE i \in bad : \A j \in bad : i <= j

\* a key_combo that presses each key as soon as it has resolved it
ComboWritesEager(parts) ==
    LET keys == [i \in 1..Len(parts) |-> ComboKeysym(parts[i])]
    IN IF FirstUnknown(parts) = 0 THEN Presses(keys) \o Releases(keys)
       ELSE Presses(SubSeq(keys, 1, FirstUnknown(parts) - 1))

\* what key_combo writes: nothing when a part does not resolve (the first loop raises
\* before the second starts), else the presses and then the releases
ComboWrites(parts) ==
    LET keys == [i \in 1..Len(parts) |-> ComboKeysym(parts[i])]
    IN IF FirstUnknown(parts) = 0 THEN Presses(keys) \o Releases(keys) ELSE <<>>

\* a click that does not release the button
ClickEventsHeld(x, y, button) == <<Pointer(x, y, 0), Pointer(x, y, button), Pointer(x, y, button)>>

\* click: move, press, release
ClickEvents(x, y, button) == <<Pointer(x, y, 0), Pointer(x, y, button), Pointer(x, y, 0)>>

\* an interpolation that stops one step short of the end
InterpShort(a, b, i, nsteps) == {a + ((b - a) * (i - 1)) \div nsteps}

\* int(x1 + (x2 - x1) * t) with t = i / steps, for coordinates that are not negative:
\* the whole part of the position.  The product is a float: where the position is a
\* whole number before the last step it may come out just below it, and int() then
\* gives the number below
Interp(a, b, i, nsteps) ==
    LET exact == a + ((b - a) * i) \div nsteps
    IN IF i < nsteps /\ a # b /\ ((b - a) * i) % nsteps = 0 THEN {exact, exact - 1}
       ELSE {exact}

\* the positions of the intermediate events i..nsteps of a drag along one axis
RECURSIVE InterpPaths(_, _, _, _)
InterpPaths(a, b, i, nsteps) ==
    IF i > nsteps THEN {<<>>}
    ELSE {<<v>> \o rest : v \in Interp(a, b, i, nsteps), rest \in InterpPaths(a, b, i + 1, nsteps)}

\* drag: move and press at the start, the intermediate events, release at the end
DragEvents(x1, y1, x2, y2, xs, ys) ==
    <<Pointer(x1, y1, 0), Pointer(x1, y1, 1)>>
        \o [i \in 1..Len(xs) |-> Pointer(xs[i], ys[i], 1)]
        \o <<Pointer(x2, y2, 0)>>

\* a scroll that ends on a press of the wheel button
ScrollEventsHeld(x, y, button, amount) ==
    <<Pointer(x, y, 0)>> \o [i \in 1..amount |-> Pointer(x, y, button)]

\* scroll: a move, then amount times a press and a release of the wheel button
\* (range(amount) is empty for an amount below 1)
ScrollEvents(x, y, button, amount) ==
    <<Pointer(x, y, 0)>>
        \o [i \in 1..(2 * amount) |-> Pointer(x, y, IF i % 2 = 1 THEN button ELSE 0)]

\* button_map.get(direction, 16)
ScrollButton(direction) ==
    IF direction = "up" THEN 8 ELSE IF direction = "down" THEN 16
    ELSE IF direction = "left" THEN 32 ELSE IF direction = "right" THEN 64 ELSE 16

\* type_text: for each character a press and a release of ord(ch)
TypeEvents(text) ==
    [i \in 1..(2 * Len(text)) |-> Key(Ord(CharAt(text, (i + 1) \div 2)), i % 2 = 1)]

\* the arguments the operations are called with
Coords == {0, 2, 5, 65536}
Buttons == {1, 2, 4}
StepCounts == (0..MaxSteps) \cup {DefaultSteps}
KeyNames == {"Return", "return", "ENTER", "a", "A", "Zzz", "zz", "", " ", "+", "F1", "ctrl"}
Combos == {"ctrl+c", "Ctrl+C", "cmd+shift+a", "ctrl+alt+delete", "a", "c+ctrl", "ctrl + c",
           "zz", "zz+ctrl", "ctrl+zz", "ctrl+zz+c", "ctrl+shift+zz", "ctrl+", "+", "ctrl++"}

Directions == {"up", "down", "left", "right", "sideways"}
Amounts == {-1, 0, 1, 3}
Texts == {"", "a", "ab", "aa", "A b"}

\* the arguments of main's one operation, and those of the operations of a session
FullArgs == [coords |-> Coords, buttons |-> Buttons, steps |-> StepCounts, keys |-> KeyNames,
             combos |-> Combos, dirs |-> Directions, amounts |-> Amounts, texts |-> Texts]
FewArgs == [coords |-> {2, 5}, buttons |-> {4}, steps |-> {2}, keys |-> {"Return", "Zzz"},
            combos |-> {"ctrl+c", "a+a", "ctrl+zz"}, dirs |-> {"sideways"},
            amounts |-> {0, 2}, texts |-> {"ab"}]

argVars == <<action, params, calls>>
inputFrame == <<cfgVars, capVars, dispVars, sockVars, stream, peer, shorts, steps, loc>>

\* connect() has returned in main of vnc-control.py
Ready == pc = "ready" /\ tool = "control"

\* main calls the operation op with the arguments args
Call(op, args) == action' = op /\ params' = args /\ calls' = calls + 1

\* the pointer events evs are written one by one; the first that does not pack raises
SendPointers(evs) ==
    LET bad == {i \in 1..Len(evs) : ~CanPackPointer(evs[i])}
        n == IF bad = {} THEN Len(evs) ELSE (CHOOSE i \in bad : \A j \in bad : i <= j) - 1
    IN /\ sent' = sent \o [i \in 1..n |-> PointerEvent(evs[i])]
       /\ IF bad = {} THEN pc' = "finally" /\ err' = err
                      ELSE Fail(Raise("struct", <<>>))

\* vnc.click(x, y): click with the left button, or with another one
Click(a) ==
    /\ Ready
    /\ \E x \in a.coords, y \in a.coords, b \in a.buttons :
        /\ Call("click", <<x, y, b>>)
        /\ SendPointers(ClickEvents(x, y, b))
    /\ UNCHANGED inputFrame

\* vnc.double_click(x, y): self.click(x, y, 1) twice
DoubleClick(a) ==
    /\ Ready
    /\ \E x \in a.coords, y \in a.coords :
        /\ Call("doubleclick", <<x, y>>)
        /\ SendPointers(ClickEvents(x, y, 1) \o ClickEvents(x, y, 1))
    /\ UNCHANGED inputFrame

\* vnc.right_click(x, y): self.click(x, y, 4)
RightClick(a) ==
    /\ Ready
    /\ \E x \in a.coords, y \in a.coords :
        /\ Call("rightclick", <<x, y>>)
        /\ SendPointers(ClickEvents(x, y, 4))
    /\ UNCHANGED inputFrame

\* vnc.drag(x1, y1, x2, y2), and drag with a number of steps
Drag(a) ==
    /\ Ready
    /\ \E x1 \in a.coords, y1 \in a.coords, x2 \in a.coords, y2 \in a.coords, n \in a.steps :
        \E xs \in InterpPaths(x1, x2, 1, n), ys \in InterpPaths(y1, y2, 1, n) :
            /\ Call("drag", <<x1, y1, x2, y2, n>>)
            /\ SendPointers(DragEvents(x1, y1, x2, y2, xs, ys))
    /\ UNCHANGED inputFrame

\* vnc.move(x, y)
Move(a) ==
    /\ Ready
    /\ \E x \in a.coords, y \in a.coords :
        /\ Call("move", <<x, y>>)
        /\ SendPointers(<<Pointer(x, y, 0)>>)
    /\ UNCHANGED inputFrame

\* vnc.scroll(direction, amount, x, y), at the middle of the display when x and y are
\* not given
Scroll(a) ==
    /\ Ready
    /\ \E direction \in a.dirs, amount \in a.amounts :
        \E at \in {<<width \div 2, height \div 2>>} \cup (a.coords \X a.coords) :
            /\ Call("scroll", <<direction, amount, at[1], at[2]>>)
            /\ SendPointers(ScrollEvents(at[1], at[2], ScrollButton(direction), amount))
    /\ UNCHANGED inputFrame

\* vnc.type_text(' '.join(params))
TypeText(a) ==
    /\ Ready
    /\ \E text \in a.texts :
        /\ Call("type", <<text>>)
        /\ sent' = sent \o KeyEvents(TypeEvents(text))
        /\ pc' = "finally" /\ err' = err
    /\ UNCHANGED inputFrame

\* vnc.press_key(params[0])
PressKey(a) ==
    /\ Ready
    /\ \E key_name \in a.keys :
        /\ Call("key", <<key_name>>)
        /\ IF PressKeysym(key_name) = NoKey
              THEN Fail(Raise("unknownkey", key_name)) /\ sent' = sent
              ELSE /\ sent' = sent \o KeyEvents(<<Key(PressKeysym(key_name), TRUE),
                                                  Key(PressKeysym(key_name), FALSE)>>)
                   /\ pc' = "finally" /\ err' = err
    /\ UNCHANGED inputFrame

\* vnc.key_combo(params[0])
KeyCombo(a) ==
    /\ Ready
    /\ \E combo \in a.combos :
        /\ Call("keycombo", <<combo>>)
        /\ sent' = sent \o KeyEvents(ComboWrites(ComboParts(combo)))
        /\ IF FirstUnknown(ComboParts(combo)) = 0
              THEN pc' = "finally" /\ err' = err
              ELSE Fail(Raise("unknownkey", ComboParts(combo)[FirstUnknown(ComboParts(combo))]))
    /\ UNCHANGED inputFrame

-----------------------------------------------------------------------------
(* main of vnc-control.py, and capture_vnc_screenshot after its loop with  *)
(* the __main__ block of vnc-screenshot.py.                                *)

\* connect() has returned: main goes to the action asked for, the screenshot tool
\* to its capture
Dispatch ==
    /\ pc = "ready"
    /\ \E a \in (IF tool = "control" THEN {"screenshot", "screensize"} ELSE {"screenshot"}) :
        /\ action' = a
        /\ params' = <<>>
        /\ calls' = calls
        /\ pc' = IF a = "screensize" THEN "finally" ELSE "capSend"
    /\ UNCHANGED <<cfgVars, capVars, dispVars, sockVars, stream, peer, shorts, sent, steps, err, loc>>

\* vnc-screenshot.py line 187: sock.close()
CloseAfterLoop ==
    /\ tool = "screenshot"
    /\ pc = "afterLoop"
    /\ sock' = "closed"
    /\ closes' = closes + 1
    /\ pc' = "output"
    /\ UNCHANGED <<cfgVars, capVars, dispVars, stream, peer, shorts, action, params, calls, sent, steps, err, loc>>

\* the image is written: capture_screenshot returns to main, capture_vnc_screenshot
\* to the __main__ block
CapReturn ==
    /\ \/ tool = "control" /\ pc = "afterLoop" /\ pc' = "finally"
       \/ tool = "screenshot" /\ pc = "output" /\ pc' = "exit"
    /\ UNCHANGED <<cfgVars, capVars, dispVars, sockVars, stream, peer, shorts, action, params, calls, sent, steps, err, loc>>

\* VNCConnection.close, called by main's finally: if self.sock: self.sock.close()
Finally ==
    /\ tool = "control"
    /\ pc \in {"finally", "raised"}
    /\ IF sock # "none"
          THEN sock' = "closed" /\ closes' = closes + 1
          ELSE UNCHANGED sockVars
    /\ pc' = "exit"
    /\ UNCHANGED <<cfgVars, capVars, dispVars, stream, peer, shorts, action, params, calls, sent, steps, err, loc>>

\* vnc-screenshot.py: except Exception as e: print(...); sys.exit(1)
MainExcept ==
    /\ tool = "screenshot"
    /\ pc = "raised"
    /\ pc' = "exit"
    /\ UNCHANGED <<cfgVars, capVars, dispVars, sockVars, stream, peer, shorts, action, params, calls, sent, steps, err, loc>>

-----------------------------------------------------------------------------
(* The specifications.                                                     *)

Fresh ==
    /\ sock = "none" /\ closes = 0
    /\ sent = <<>> /\ steps = <<>>
    /\ width = 0 /\ height = 0 /\ name = <<>>
    /\ err = NoErr /\ loc = NoLoc
    /\ upd = NoScript /\ framebuffer = <<>> /\ rectsLeft = 0
    /\ consumed = 0 /\ loopEnd = "none" /\ updates = 0

\* a run of either tool against a server playing one of HandshakeScripts
Init ==
    /\ tool \in {"control", "screenshot"}
    /\ action = "" /\ params = <<>> /\ calls = 0
    /\ password = Password
    /\ srv \in HandshakeScripts
    /\ stream = ScriptBytes(srv)
    /\ peer = "up"
    /\ shorts = <<>>
    /\ pc = "connect"
    /\ Fresh

Handshake ==
    \/ Connect \/ RecvVersion \/ SendVersion \/ RecvNumTypes \/ RecvErrLen \/ RecvErrMsg
    \/ RecvSecTypes \/ SendSecType \/ RecvChallenge \/ SendResponse \/ RecvAuthResult
    \/ SendClientInit \/ RecvServerInit \/ RecvName

Receive == CapUpdate \/ CapRect \/ CapColorMap \/ CapBell \/ CapCutText \/ CapUnknown \/ CapRecvFails

Exit == CloseAfterLoop \/ CapReturn \/ Finally \/ MainExcept

Next == Handshake \/ Dispatch \/ CapSend(FewScripts) \/ Receive \/ Exit

Spec == Init /\ [][Next]_vars

\* the state connect() leaves after a handshake without authentication (the server
\* offered None alone and every read was whole), for the receive loop's own checks
InitCap ==
    /\ tool \in {"control", "screenshot"}
    /\ action = "" /\ params = <<>> /\ calls = 0
    /\ password = Password
    /\ srv \in {h \in HandshakeScripts : h.types = <<1>> /\ h.name = <<>>}
    /\ stream = <<>>
    /\ peer = "up"
    /\ shorts = <<>>
    /\ pc = "ready"
    /\ sock = "open" /\ closes = 0
    /\ sent = <<[kind |-> "version", data |-> ClientVersion],
                [kind |-> "sectype", data |-> <<1>>],
                [kind |-> "clientinit", data |-> <<1>>]>>
    /\ steps = <<"rdVersion", "wrVersion", "rdNumTypes", "rdSecTypes", "wrSecType",
                 "wrClientInit", "rdServerInit", "rdName">>
    /\ width = srv.w /\ height = srv.h /\ name = <<>>
    /\ err = NoErr
    /\ loc = [NoLoc EXCEPT !.num_types = 1, !.sel = 1]
    /\ upd = NoScript /\ framebuffer = <<>> /\ rectsLeft = 0
    /\ consumed = 0 /\ loopEnd = "none" /\ updates = 0

\* the timer of settimeout runs and the client's code goes on: every step that does
\* not wait for the server to close the connection is taken in the end
SpecLive == Spec /\ WF_vars(Next /\ peer' = peer)

\* a session of vnc-control.py that is ready (as InitCap), for the input operations
InitInput == InitCap /\ tool = "control"

Input(a) ==
    \/ Click(a) \/ DoubleClick(a) \/ RightClick(a) \/ Move(a) \/ Drag(a) \/ Scroll(a)
    \/ TypeText(a) \/ PressKey(a) \/ KeyCombo(a)

NextInput == Input(FullArgs) \/ Finally

SpecInput == InitInput /\ [][NextInput]_vars

\* the state of connect() when the server has offered VNCAuth alone and its challenge
\* has been read whole, for any of Passwords
InitKey ==
    /\ tool \in {"control", "screenshot"}
    /\ action = "" /\ params = <<>> /\ calls = 0
    /\ password \in Passwords
    /\ srv \in {h \in HandshakeScripts : h.types = <<2>> /\ h.result = 0 /\ h.name = <<>>}
    /\ stream = PackU32(srv.result) \o ServerInitBytes(srv.w, srv.h, srv.name)
    /\ peer = "up"
    /\ shorts = <<>>
    /\ pc = "wrResponse"
    /\ sock = "open" /\ closes = 0
    /\ sent = <<[kind |-> "version", data |-> ClientVersion],
                [kind |-> "sectype", data |-> <<2>>]>>
    /\ steps = <<"rdVersion", "wrVersion", "rdNumTypes", "rdSecTypes", "wrSecType", "rdChallenge">>
    /\ width = 0 /\ height = 0 /\ name = <<>>
    /\ err = NoErr
    /\ loc = [NoLoc EXCEPT !.num_types = 1, !.sel = 2, !.challenge = srv.chal]
    /\ upd = NoScript /\ framebuffer = <<>> /\ rectsLeft = 0
    /\ consumed = 0 /\ loopEnd = "none" /\ updates = 0

NextKey == SendResponse

SpecKey == InitKey /\ [][NextKey]_vars

\* an operation of VNCConnection has returned to a caller that calls another one on the
\* same connection, up to MaxCalls operations
Return ==
    /\ tool = "control" /\ pc = "finally" /\ err = NoErr
    /\ calls \in 1..(MaxCalls - 1)
    /\ pc' = "ready"
    /\ UNCHANGED <<cfgVars, capVars, dispVars, sockVars, stream, peer, shorts, action, params, calls,
                   sent, steps, err, loc>>

NextSession == Input(FewArgs) \/ Return \/ Finally

\* a session of up to MaxCalls input operations on one connection
SpecSession == InitInput /\ [][NextSession]_vars

NextCap == Dispatch \/ CapSend(CaptureScripts) \/ Receive \/ Exit

SpecCap == InitCap /\ [][NextCap]_vars

-----------------------------------------------------------------------------
(* The claims.                                                             *)

IsPrefix(a, b) == Len(a) <= Len(b) /\ a = SubSeq(b, 1, Len(a))

Kinds(msgs) == [i \in 1..Len(msgs) |-> msgs[i].kind]
Wrote(kind) == \E i \in 1..Len(sent) : sent[i].kind = kind
Did(step) == \E i \in 1..Len(steps) : steps[i] = step

\* the server dropped nothing: no read hit a closed connection or timed out
Delivered == peer = "up" /\ err.kind \notin {"timeout", "closed"}

\* the socket calls of a handshake that selects security type sel, and of a rejection
HandshakeOrder(sel) ==
    <<"rdVersion", "wrVersion", "rdNumTypes", "rdSecTypes", "wrSecType">>
        \o (IF sel = 2 THEN <<"rdChallenge", "wrResponse", "rdAuthResult">> ELSE <<>>)
        \o <<"wrClientInit", "rdServerInit", "rdName">>
RejectOrder == <<"rdVersion", "wrVersion", "rdNumTypes", "rdErrLen", "rdErrMsg">>

\* the messages a handshake that selects sel writes
HandshakeWrites(sel) ==
    <<"version", "sectype">> \o (IF sel = 2 THEN <<"response">> ELSE <<>>) \o <<"clientinit">>

\* the type the client selected: the byte of its second message
Selected == IF Len(sent) >= 2 /\ sent[2].kind = "sectype" THEN sent[2].data[1] ELSE 0

\* connect() has returned: the session is ready, or main has gone on from there
HandshakeDone ==
    /\ pc \notin {"connect", "rdVersion", "wrVersion", "rdNumTypes", "rdErrLen",
                  "rdErrMsg", "rdSecTypes", "wrSecType", "rdChallenge", "wrResponse",
                  "rdAuthResult", "wrClientInit", "rdServerInit", "rdName"}
    /\ pc \in {"raised", "exit"} => action # ""

\* read s was short
ShortAt(s) == \E i \in 1..Len(shorts) : shorts[i] = s

\* C1: the handshake's socket calls come in one order: version read, version written,
\* security types read, selection written, (for VNCAuth alone: challenge read, response
\* written, result read), ClientInit written, ServerInit read.  What has been done so
\* far is always a beginning of that order for the type selected (or of the rejection of
\* a zero count), the version written is 'RFB 003.008\n' and ClientInit is the byte 1;
\* width, height and name are not set before ServerInit is read, and the session is
\* ready, or goes on to a capture, only with the whole order done.
C1_HandshakeOrder ==
    /\ \/ IsPrefix(steps, RejectOrder)
       \/ Selected = 0 /\ IsPrefix(steps, SubSeq(HandshakeOrder(1), 1, 4))
       \/ Selected # 0 /\ IsPrefix(steps, HandshakeOrder(Selected))
    /\ Selected \in {0, 1, 2}
    /\ IsPrefix(Kinds(sent), HandshakeWrites(Selected)) \/ HandshakeDone
    /\ Wrote("setpixelformat") => HandshakeDone
    /\ \A i \in 1..Len(sent) :
        /\ sent[i].kind = "version" => sent[i].data = ClientVersion
        /\ sent[i].kind = "clientinit" => sent[i].data = <<1>>
    /\ (width # 0 \/ height # 0 \/ name # <<>>) => Did("rdServerInit")
    /\ HandshakeDone
          => /\ steps = HandshakeOrder(Selected)
             /\ IsPrefix(HandshakeWrites(Selected), Kinds(sent))

\* a handshake with VNCAuth has run to its end
C1_Witness == pc = "ready" /\ Selected = 2 /\ Len(steps) = 11

\* C2: for a non-empty list of offered types the client selects 2 when 2 is offered,
\* else 1 when 1 is offered (and then reads no challenge); else connect fails as
\* unsupported and writes neither a selection nor ClientInit, and is never ready.
\* (Stated for the runs that reach the list in step: the version was read whole.)
C2_SelectionFollowsOffer ==
    (srv.types # <<>> /\ Delivered /\ ~ShortAt("rdVersion")) =>
        /\ (2 \in Range(srv.types) /\ Wrote("sectype")) => Selected = 2
        /\ (2 \notin Range(srv.types) /\ 1 \in Range(srv.types) /\ Wrote("sectype"))
              => Selected = 1 /\ ~Did("rdChallenge")
        /\ (2 \notin Range(srv.types) /\ 1 \notin Range(srv.types))
              => /\ ~Wrote("sectype") /\ ~Wrote("clientinit") /\ ~HandshakeDone
                 /\ pc \in {"raised", "exit"} => err.kind = "unsupported"
        /\ (Did("rdSecTypes") /\ (2 \in Range(srv.types) \/ 1 \in Range(srv.types)))
              => err.kind # "unsupported"

\* C3: with VNCAuth selected and a non-zero SecurityResult from the server, connect
\* fails as authentication-failed: no ClientInit is written, ServerInit is not read,
\* width, height and name stay as constructed and no capture message is sent.  With a
\* result of 0 the handshake goes on to ClientInit.
\* (Stated for the runs in which the version and the list of types were read whole.)
C3_AuthResultDecides ==
    (/\ 2 \in Range(srv.types) /\ Selected = 2 /\ Delivered
     /\ ~ShortAt("rdVersion") /\ ~ShortAt("rdSecTypes")) =>
        /\ srv.result # 0 =>
              /\ ~Wrote("clientinit") /\ ~Did("rdServerInit") /\ ~Wrote("setpixelformat")
              /\ width = 0 /\ height = 0 /\ name = <<>>
              /\ ~HandshakeDone
              /\ (Did("rdAuthResult") /\ pc \in {"raised", "exit"}) => err.kind = "authfailed"
        /\ (srv.result = 0 /\ Did("rdAuthResult")) => pc \notin {"raised", "exit"} \/ Wrote("clientinit")

\* C4: a security-type count of 0 makes connect read the reason and fail as rejected
\* with exactly the server's text; nothing is written after the version and the
\* session is never ready.
\* (Stated for the runs in which the version was read whole.)
C4_RejectionCarriesReason ==
    (srv.types = <<>> /\ Delivered /\ ~ShortAt("rdVersion")) =>
        /\ Kinds(sent) \in {<<>>, <<"version">>}
        /\ ~HandshakeDone
        /\ pc \in {"raised", "exit"} => err = Raise("rejected", Decode(srv.reason))

\* C5: when a run of either tool ends, however it ends, the socket it opened has been
\* closed exactly once.
C5_ClosedExactlyOnce ==
    /\ closes <= 1
    /\ (pc = "exit" /\ sock # "none") => closes = 1 /\ sock = "closed"

-----------------------------------------------------------------------------
(* The claims on the receive loop.                                         *)

AfterLoopPcs == {"afterLoop", "output", "finally", "exit"}
LoopEnded(how) == loopEnd = how /\ pc \in AfterLoopPcs /\ err = NoErr

IsRaw(r) == r.enc = RawEncoding
Inside(r, w, h) == r.x + r.w <= w /\ r.y + r.h <= h
Contains(r, px, py) == r.x <= px /\ px < r.x + r.w /\ r.y <= py /\ py < r.y + r.h

\* the Raw rectangles of rects that contain pixel (px, py)
Covering(rects, px, py) ==
    {i \in 1..Len(rects) : IsRaw(rects[i]) /\ Contains(rects[i], px, py)}

Last(S) == CHOOSE i \in S : \A j \in S : j <= i

\* byte c (0..3) of pixel (px, py) in the payload the server sent for rectangle i
PayloadByte(rects, i, px, py, c) ==
    Payload(i, rects[i])[((py - rects[i].y) * rects[i].w + (px - rects[i].x)) * BytesPerPixel + c + 1]

\* the image the update describes: byte b of a w x h buffer holds the payload of the
\* last Raw rectangle over its pixel, and 0 when there is none
Composite(rects, w, h) ==
    [b \in 1..(w * h * BytesPerPixel) |->
        LET p == (b - 1) \div BytesPerPixel
            c == (b - 1) % BytesPerPixel
            S == Covering(rects, p % w, p \div w)
        IN IF S = {} THEN 0 ELSE PayloadByte(rects, Last(S), p % w, p \div w, c)]

AllRawInside(rects) ==
    \A i \in 1..Len(rects) : IsRaw(rects[i]) /\ Inside(rects[i], width, height)

\* C6: after an update whose rectangles are all Raw and inside the display, every
\* pixel of the buffer holds the payload pixel of the last rectangle, in the server's
\* order, that contains it, and zero if none does.
C6_LastRectangleWins ==
    (LoopEnded("update") /\ upd.fin = "update" /\ AllRawInside(upd.rects))
        => framebuffer = Composite(upd.rects, width, height)

\* two rectangles over the same pixel have been composited
C6_Witness ==
    /\ LoopEnded("update") /\ AllRawInside(upd.rects) /\ Len(upd.rects) >= 2
    /\ \E px \in 0..1, py \in 0..1 : Cardinality(Covering(upd.rects, px, py)) >= 2
    /\ \E i \in 1..Len(upd.rects) : upd.rects[i].x > 0 /\ upd.rects[i].h > 1

\* rectangles a and b share a pixel
Overlap(a, b) ==
    a.x < b.x + b.w /\ b.x < a.x + a.w /\ a.y < b.y + b.h /\ b.y < a.y + a.h

\* one rectangle of rects is not Raw, all are inside the display and no Raw one lies
\* over the one that is not
OneUnsupported(rects) ==
    /\ Cardinality({i \in 1..Len(rects) : ~IsRaw(rects[i])}) = 1
    /\ \A i \in 1..Len(rects) : Inside(rects[i], width, height)
    /\ \A i, j \in 1..Len(rects) :
          (IsRaw(rects[i]) /\ ~IsRaw(rects[j])) => ~Overlap(rects[i], rects[j])

\* C7: in an update with one rectangle that is not Raw, that rectangle's region keeps
\* its zero bytes and every Raw rectangle of the update, before or after it, is applied:
\* the buffer is the composite of the Raw rectangles.
C7_OtherRectanglesApplied ==
    (LoopEnded("update") /\ upd.fin = "update" /\ OneUnsupported(upd.rects))
        => framebuffer = Composite(upd.rects, width, height)

\* C8: during a capture and when it returns the buffer holds exactly width*height*4
\* bytes, whatever rectangles the server sends.
C8_BufferKeepsItsSize ==
    pc \in {"loop", "rects", "afterLoop", "output"}
        => Len(framebuffer) = width * height * BytesPerPixel

\* the bytes of the first n rectangles of an update
RectsLen(rects, n) == Len(RectsBytes(SubSeq(rects, 1, n), 1))

\* C9: the receive loop handles one FramebufferUpdate and no more.  When the loop has
\* ended on the update, the messages before it and the update are what was read (all
\* its rectangles; vnc-screenshot.py stops at a rectangle that is not Raw), and what the
\* server sent after it is still unread, now and until the run ends; messages of type
\* 1, 2 and 3 before the update do not end the loop.
C9_OneUpdateOnly ==
    /\ updates <= 1
    /\ (pc \in AfterLoopPcs /\ err = NoErr /\ upd.fin = "update") => LoopEnded("update")
    /\ LoopEnded("update") =>
        /\ updates = 1
        /\ \E n \in 0..Len(upd.rects) :
            /\ consumed = Len(PresBytes(upd.pre, 1)) + 4 + RectsLen(upd.rects, n)
            /\ stream = SubSeq(CapBytes(upd), consumed + 1, Len(CapBytes(upd)))
            /\ \/ n = Len(upd.rects)
               \/ tool = "screenshot" /\ n > 0 /\ ~IsRaw(upd.rects[n])
        /\ IsPrefix(upd.tail, SubSeq(stream, Len(stream) - Len(upd.tail) + 1, Len(stream)))
        /\ Len(stream) >= Len(upd.tail)

\* the loop has ended on an update that other messages preceded and a second update follows
C9_Witness ==
    LoopEnded("update") /\ upd.pre # <<>> /\ upd.tail # <<>> /\ upd.rects # <<>> /\ pc = "exit"

\* C10 as stated: after a message of an unknown type the capture ends without a
\* failure, the buffer is whole, width, height and name are as negotiated, and the
\* socket is still open when the buffer is returned.
C10_UnknownTypeKeepsSocketOpen ==
    (loopEnd = "unknown" /\ pc \in {"afterLoop", "output"}) =>
        /\ err = NoErr
        /\ framebuffer = Rep(0, width * height * BytesPerPixel)
        /\ width = srv.w /\ height = srv.h /\ name = Decode(srv.name)
        /\ sock = "open" /\ closes = 0

\* C10, amended: after a message of an unknown type the loop ends without a failure,
\* the buffer is whole (all zero), width, height and name are as negotiated and the
\* loop itself closes nothing.  VNCConnection.capture_screenshot returns with the
\* socket open; capture_vnc_screenshot closes its socket once, after the loop, as at
\* the end of every capture of that tool.
C10_UnknownTypeEndsCapture ==
    (loopEnd = "unknown" /\ pc \in {"afterLoop", "output", "finally"}) =>
        /\ err = NoErr
        /\ framebuffer = Rep(0, width * height * BytesPerPixel)
        /\ width = srv.w /\ height = srv.h /\ name = Decode(srv.name)
        /\ updates = 0
        /\ pc = "afterLoop" => sock = "open" /\ closes = 0
        /\ tool = "control" => sock = "open" /\ closes = 0
        /\ (tool = "screenshot" /\ pc = "output") => sock = "closed" /\ closes = 1

\* a capture of each tool has ended on an unknown message that followed another message
C10_Witness ==
    /\ loopEnd = "unknown" /\ upd.pre # <<>> /\ upd.fin = "unknown"
    /\ \/ tool = "control" /\ pc = "finally"
       \/ tool = "screenshot" /\ pc = "output"

-----------------------------------------------------------------------------
(* The claims on timeouts.                                                 *)

\* a read that has nothing to return while the server keeps the connection open
Blocked ==
    /\ peer = "up" /\ stream = <<>>
    /\ \/ pc \in {"rdVersion", "rdNumTypes", "rdErrLen", "rdSecTypes", "rdChallenge",
                   "rdAuthResult", "rdServerInit", "loop", "rects"}
       \/ pc = "rdErrMsg" /\ loc.err_len > 0
       \/ pc = "rdName" /\ loc.name_len > 0

\* a capture on a display larger than the ones of the model, which is not followed
Oversized == pc = "capSend" /\ (width > MaxCoord \/ height > MaxCoord)

\* C11: no connection attempt and no read blocks forever.  A read that gets no byte
\* from a server that stays silent ends in the timeout failure (unless the server
\* closes the connection meanwhile, which ends the read too), and every run comes to
\* its end.
C11_NoReadBlocksForever ==
    /\ Blocked ~> (err.kind = "timeout" \/ peer = "closed")
    /\ <>(pc = "exit" \/ Oversized)

\* a capture against a server that answers nothing has timed out and the run has ended
C11_Witness ==
    /\ pc = "exit" /\ err = Raise("timeout", <<>>)
    /\ Wrote("updaterequest") /\ upd = NoScript /\ consumed = 0

-----------------------------------------------------------------------------
(* The claims on the input operations.                                     *)

IsInput(m) == m.kind \in {"pointer", "key"}

\* the PointerEvents and KeyEvents written, in order
InputEvents == SelectSeq(sent, IsInput)

\* the fields of a written event, read back from its bytes
EvType(m) == m.data[1]
EvMask(m) == m.data[2]
EvX(m) == UnpackU16(SubSeq(m.data, 3, 4))
EvY(m) == UnpackU16(SubSeq(m.data, 5, 6))
EvDown(m) == m.data[2]
EvKey(m) == UnpackU32(SubSeq(m.data, 5, 8))

\* main has called op: it has returned or raised
Called(op) == action = op /\ pc \in {"finally", "raised", "exit"}

\* the first n arguments are coordinates a PointerEvent can carry
CoordsFit(n) == \A i \in 1..n : params[i] \in 0..65535

IsPointer(m, x, y, mask) ==
    Len(m.data) = 6 /\ EvType(m) = 5 /\ EvMask(m) = mask /\ EvX(m) = x /\ EvY(m) = y

IsKey(m, key, down) ==
    Len(m.data) = 8 /\ EvType(m) = 4 /\ EvDown(m) = down /\ EvKey(m) = key
        /\ m.data[3] = 0 /\ m.data[4] = 0

\* events k+1..k+3 are move, press with mask button, release, all at (x, y)
ClickAt(ev, k, x, y, button) ==
    /\ Len(ev) >= k + 3
    /\ IsPointer(ev[k + 1], x, y, 0)
    /\ IsPointer(ev[k + 2], x, y, button)
    /\ IsPointer(ev[k + 3], x, y, 0)

\* the number of '+'-separated parts of a combo
NumParts(combo) == 1 + Cardinality({i \in 1..Len(combo) : CharAt(combo, i) = "+"})

AllResolve(combo) ==
    \A i \in 1..Len(ComboParts(combo)) : ComboKeysym(ComboParts(combo)[i]) # NoKey

\* C12: a combo of n parts that all resolve makes key_combo write 2n KeyEvents: the n
\* key-downs of the resolved keysyms from left to right, then the n key-ups of the
\* same keysyms from right to left.  'ctrl+c' gives down 0xffe3, down 0x63, up 0x63,
\* up 0xffe3.
C12_ComboDownThenUpReversed ==
    (Called("keycombo") /\ AllResolve(params[1])) =>
        LET n == NumParts(params[1])
            parts == ComboParts(params[1])
            ev == InputEvents
        IN /\ err = NoErr
           /\ Len(parts) = n
           /\ Len(ev) = 2 * n
           /\ \A i \in 1..n :
                /\ IsKey(ev[i], ComboKeysym(parts[i]), 1)
                /\ IsKey(ev[2 * n + 1 - i], ComboKeysym(parts[i]), 0)
           /\ params[1] = "ctrl+c" =>
                /\ IsKey(ev[1], 65507, 1) /\ IsKey(ev[2], 99, 1)
                /\ IsKey(ev[3], 99, 0) /\ IsKey(ev[4], 65507, 0)

\* a combo of three keys has been pressed and released
C12_Witness ==
    action = "keycombo" /\ params = <<"cmd+shift+a">> /\ pc = "exit" /\ Len(InputEvents) = 6

\* C13: press_key looks the name up without regard to case; a name that is not in the
\* table and is one character stands for its code point; then one key-down and one
\* key-up of that keysym are written.  A name that is not in the table and is not one
\* character fails as an unknown key and nothing is written.  'Return' is 0xff0d, 'a'
\* is 0x61, 'Zzz' fails.
C13_PressKeyResolves ==
    Called("key") =>
        LET key_name == params[1]
            ev == InputEvents
            inTable == Lower(key_name) \in DOMAIN KEYSYM_MAP
            pressed(k) == err = NoErr /\ Len(ev) = 2 /\ IsKey(ev[1], k, 1) /\ IsKey(ev[2], k, 0)
            failed == err = Raise("unknownkey", key_name) /\ ev = <<>>
        IN /\ inTable => pressed(KEYSYM_MAP[Lower(key_name)])
           /\ (~inTable /\ Len(key_name) = 1) => pressed(Ord(key_name))
           /\ (~inTable /\ Len(key_name) # 1) => failed
           /\ key_name = "Return" => pressed(65293)
           /\ key_name = "a" => pressed(97)
           /\ key_name = "Zzz" => failed

\* a key named in another case than the table's has been pressed
C13_Witness ==
    action = "key" /\ params = <<"Return">> /\ pc = "exit" /\ Len(InputEvents) = 2

\* C14: for coordinates that a PointerEvent can carry (0..65535), click writes exactly
\* three PointerEvents at (x, y): mask 0, mask button, mask 0.
\* right_click is that with mask 4, double_click is two such sequences with mask 1, one
\* after the other.
C14_ClickMovePressRelease ==
    /\ (Called("click") /\ CoordsFit(2)) =>
          /\ err = NoErr /\ Len(InputEvents) = 3
          /\ ClickAt(InputEvents, 0, params[1], params[2], params[3])
    /\ (Called("rightclick") /\ CoordsFit(2)) =>
          /\ err = NoErr /\ Len(InputEvents) = 3
          /\ ClickAt(InputEvents, 0, params[1], params[2], 4)
    /\ (Called("doubleclick") /\ CoordsFit(2)) =>
          /\ err = NoErr /\ Len(InputEvents) = 6
          /\ ClickAt(InputEvents, 0, params[1], params[2], 1)
          /\ ClickAt(InputEvents, 3, params[1], params[2], 1)

\* a double click has been written
C14_Witness ==
    action = "doubleclick" /\ params = <<2, 5>> /\ pc = "exit" /\ Len(InputEvents) = 6

\* position q follows position p on the way from a to b
Toward(a, b, p, q) == IF a <= b THEN p <= q /\ q <= b ELSE p >= q /\ q >= b

\* C15: for coordinates that a PointerEvent can carry (0..65535), drag writes
\* steps + 3 PointerEvents: a move at the start with mask 0, a press
\* at the start with mask 1, steps events with mask 1 whose positions go from the start
\* toward the end without turning back and end on (x2, y2), and a release at (x2, y2)
\* with mask 0.
C15_DragPressPathRelease ==
    (Called("drag") /\ CoordsFit(4)) =>
        LET x1 == params[1]
            y1 == params[2]
            x2 == params[3]
            y2 == params[4]
            n == params[5]
            ev == InputEvents
        IN /\ err = NoErr
           /\ Len(ev) = n + 3
           /\ IsPointer(ev[1], x1, y1, 0)
           /\ IsPointer(ev[2], x1, y1, 1)
           /\ \A i \in 2..(n + 2) : EvType(ev[i]) = 5 /\ EvMask(ev[i]) = 1
           /\ \A i \in 2..(n + 1) :
                /\ Toward(x1, x2, EvX(ev[i]), EvX(ev[i + 1]))
                /\ Toward(y1, y2, EvY(ev[i]), EvY(ev[i + 1]))
           /\ n >= 1 => IsPointer(ev[n + 2], x2, y2, 1)
           /\ IsPointer(ev[n + 3], x2, y2, 0)

\* a drag of main, with the default 20 steps, leftwards and downwards, has been written
C15_Witness ==
    /\ action = "drag" /\ params = <<5, 0, 0, 5, DefaultSteps>> /\ pc = "exit"
    /\ Len(InputEvents) = DefaultSteps + 3

\* C20: key_combo resolves every part before it writes: a combo with a part, at any
\* position, that is neither in the table nor one character fails as an unknown key
\* and no KeyEvent has been written.
C20_ComboWritesNothingOnUnknownKey ==
    (Called("keycombo") /\ ~AllResolve(params[1])) =>
        /\ err.kind = "unknownkey"
        /\ InputEvents = <<>>

\* a combo whose unknown part follows a modifier has failed
C20_Witness ==
    /\ action = "keycombo" /\ params = <<"ctrl+zz">> /\ pc = "exit"
    /\ err = Raise("unknownkey", "zz")

-----------------------------------------------------------------------------
(* The claim on the DES key of VNCAuth.                                    *)

\* bit j of byte b (bit 0 is the least significant)
Bit(b, j) == (b \div (2 ^ j)) % 2

\* the password cut to 8 bytes, or filled up to 8 bytes with zero bytes
Padded(pw) == [i \in 1..8 |-> IF i <= Len(pw) THEN pw[i] ELSE 0]

\* the keys DES was given for the blocks of the response written
ResponseKeys == {sent[k].data[b].key : k \in {i \in 1..Len(sent) : sent[i].kind = "response"},
                                        b \in 1..2}

\* C16: whatever the password, the DES key of the response has exactly 8 bytes, byte i
\* of the key is byte i of the password cut or zero-filled to 8 bytes with its 8 bits
\* in reverse order (bit 7 becomes bit 0), so that no byte after the eighth has a part
\* in it, and reversing the key's bytes once more gives the padded password back.
C16_KeyIsEightReversedBytes ==
    Wrote("response") =>
        /\ Cardinality(ResponseKeys) = 1
        /\ \A key \in ResponseKeys :
            /\ Len(key) = 8
            /\ \A i \in 1..8 :
                /\ key[i] \in 0..255
                /\ \A j \in 0..7 : Bit(key[i], j) = Bit(Padded(password)[i], 7 - j)
            /\ [i \in 1..8 |-> RevBits(key[i], 8)] = Padded(password)
            /\ \A pw \in Passwords :
                 SubSeq(pw, 1, Min(8, Len(pw))) = SubSeq(password, 1, Min(8, Len(password)))
                    => PadKey(pw) = PadKey(password)

\* a response has been written for a password of 9 bytes whose ninth differs from
\* its eighth
C16_Witness ==
    /\ Wrote("response") /\ pc = "rdAuthResult"
    /\ Len(password) = 9 /\ password[9] # password[8] /\ password[1] = 193

-----------------------------------------------------------------------------
(* The claim on the reads of the handshake.                                *)

\* how the handshake with a server playing script s ends when every read returns the
\* whole message
WholeOutcome(s) ==
    IF s.types = <<>> THEN Raise("rejected", Decode(s.reason))
    ELSE IF SelectSecurityType(s.types) = 0 THEN Raise("unsupported", s.types)
    ELSE IF SelectSecurityType(s.types) = 2 /\ ~AuthOk(s.result)
            THEN Raise("authfailed", PackU32(s.result))
    ELSE NoErr

\* connect() has returned or raised
HandshakeEnded == pc = "ready" \/ (pc \in {"raised", "exit"} /\ action = "")

\* C17: however the server's bytes are split into the chunks that the reads return,
\* the handshake ends as it does when each read returns a whole message: with the same
\* failure or, without one, with the server's width, height and name, the response
\* made from the whole 16-byte challenge and nothing of the handshake left unread;
\* and once the connection has closed inside a message, the handshake has failed.
C17_EveryMessageReadWhole ==
    /\ (HandshakeEnded /\ peer = "up" /\ err.kind # "timeout") =>
          /\ err = WholeOutcome(srv)
          /\ err = NoErr =>
                /\ width = srv.w /\ height = srv.h /\ name = Decode(srv.name)
                /\ Wrote("response") => loc.challenge = srv.chal /\ Len(loc.challenge) = ChallengeLen
                /\ stream = <<>>
    /\ (peer = "closed" /\ action = "") => err # NoErr

-----------------------------------------------------------------------------
(* The claim on the messages of the receive loop that are not updates.     *)

\* the length of a message of type 1, 2 or 3 carrying n colours or n bytes of text:
\* its type byte and what follows it
MsgLen(t, n) ==
    1 + (IF t = 1 THEN 1 + 2 + 2 + n * 6 ELSE IF t = 2 THEN 0 ELSE 3 + 4 + n)

RECURSIVE MsgsLen(_, _)
\* the length of the first k messages of pre
MsgsLen(pre, k) == IF k = 0 THEN 0 ELSE MsgsLen(pre, k - 1) + MsgLen(pre[k].t, pre[k].n)

\* C18: in the receive loop a message of type 1 takes 1 + 2 + 2 + count*6 bytes after
\* its type byte, one of type 2 none, one of type 3 takes 3 + 4 + length bytes: when
\* the loop is about to read a type byte it has read some of the server's messages of
\* these types whole and nothing more, the pixel buffer is as it was made and width
\* and height are the display's; the update that follows them is the one dispatched,
\* read from its first byte.
C18_OtherMessagesReadWhole ==
    /\ pc = "loop" =>
          /\ \E k \in 0..Len(upd.pre) : consumed = MsgsLen(upd.pre, k)
          /\ stream = SubSeq(CapBytes(upd), consumed + 1, Len(CapBytes(upd)))
          /\ framebuffer = Rep(0, srv.w * srv.h * BytesPerPixel)
          /\ width = srv.w /\ height = srv.h
          /\ updates = 0
    /\ updates > 0 =>
          /\ upd.fin = "update"
          /\ consumed >= MsgsLen(upd.pre, Len(upd.pre)) + 4
          /\ pc = "rects" => rectsLeft <= Len(upd.rects) /\ rectsLeft > 0
    /\ (pc \in AfterLoopPcs /\ err = NoErr /\ action = "screenshot") =>
          loopEnd = (IF upd.fin = "none" THEN loopEnd ELSE upd.fin)

\* an update that followed a ServerCutText with a byte of text and a
\* SetColorMapEntries with a colour has been applied
C18_Witness ==
    /\ LoopEnded("update") /\ updates = 1
    /\ upd.pre = <<[t |-> 3, n |-> 1], [t |-> 1, n |-> 1]>> /\ upd.rects = <<OneRect>>
    /\ SubSeq(framebuffer, 1, BytesPerPixel) = Payload(1, OneRect)

-----------------------------------------------------------------------------
(* The claim on the requests of a capture.                                 *)

IsCaptureMsg(m) == m.kind \notin {"version", "sectype", "response", "clientinit"}

\* what the client has written since the handshake
CaptureMsgs == SelectSeq(sent, IsCaptureMsg)

\* the three requests for a display of w x h, byte by byte
ThreeRequests(w, h) ==
    << <<0, 0, 0, 0, 32, 24, 0, 1, 0, 255, 0, 255, 0, 255, 16, 8, 0, 0, 0, 0>>,
       <<2, 0, 0, 1, 0, 0, 0, 0>>,
       <<3, 0, 0, 0, 0, 0, w \div 256, w % 256, h \div 256, h % 256>> >>

\* the capture has begun to read, or is over
CaptureReads ==
    \/ pc \in {"loop", "rects", "afterLoop", "output"}
    \/ consumed > 0 \/ updates > 0 \/ loopEnd # "none"

\* C19: a capture writes three messages before it reads anything: SetPixelFormat
\* (32 bits per pixel, depth 24, little-endian, true colour, maxima 255, shifts 16, 8,
\* 0), SetEncodings with the one encoding 0 (Raw), and a FramebufferUpdateRequest with
\* incremental 0 for the rectangle (0, 0, width, height) of the display; it writes
\* nothing else, and no second request.
C19_ThreeRequestsThenRead ==
    /\ CaptureMsgs # <<>> \/ CaptureReads =>
          /\ Len(CaptureMsgs) = 3
          /\ [i \in 1..3 |-> CaptureMsgs[i].data] = ThreeRequests(srv.w, srv.h)
          /\ [i \in 1..3 |-> CaptureMsgs[i].kind] = <<"setpixelformat", "setencodings", "updaterequest">>
          /\ SubSeq(sent, Len(sent) - 2, Len(sent)) = CaptureMsgs
          /\ width = srv.w /\ height = srv.h
    /\ Cardinality({i \in 1..Len(sent) : sent[i].kind = "updaterequest"}) <= 1
    /\ (pc = "loop" /\ consumed = 0) => stream = CapBytes(upd)

\* the loop of a capture of a display of 1 x 2 is about to read its first byte, the
\* three requests written and the server's answer unread
C19_Witness ==
    /\ pc = "loop" /\ consumed = 0 /\ Len(stream) > 0
    /\ Len(CaptureMsgs) = 3 /\ width = 1 /\ height = 2

-----------------------------------------------------------------------------
(* The claim on what a session of input operations leaves held.            *)

IsPointerMsg(m) == m.kind = "pointer"
IsKeyMsg(m) == m.kind = "key"

PointerEvs == SelectSeq(sent, IsPointerMsg)
KeyEvs == SelectSeq(sent, IsKeyMsg)

\* every operation called so far has returned
AllCompleted == tool = "control" /\ err = NoErr /\ pc \in {"ready", "finally", "exit"}

\* the key-downs (down = 1) or key-ups (down = 0) of keysym k among the first n KeyEvents
KeyCount(k, down, n) == Cardinality({i \in 1..n : EvKey(KeyEvs[i]) = k /\ EvDown(KeyEvs[i]) = down})

\* C21: when every input operation called on the connection has run to completion,
\* nothing is held: the last PointerEvent written, if there is one, has button mask 0,
\* and every keysym has got as many key-ups as key-downs, no key-up coming before its
\* key-down.
C21_NothingLeftHeld ==
    AllCompleted =>
        /\ PointerEvs # <<>> => EvMask(PointerEvs[Len(PointerEvs)]) = 0
        /\ \A i \in 1..Len(KeyEvs) :
            LET k == EvKey(KeyEvs[i])
            IN /\ KeyCount(k, 0, Len(KeyEvs)) = KeyCount(k, 1, Len(KeyEvs))
               /\ \A n \in 1..Len(KeyEvs) : KeyCount(k, 0, n) <= KeyCount(k, 1, n)

\* a drag of two steps and then a combo of the same key twice have both returned
C21_Witness ==
    /\ AllCompleted /\ pc = "exit" /\ calls = 2
    /\ action = "keycombo" /\ params = <<"a+a">> /\ Len(KeyEvs) = 4
    /\ Len(PointerEvs) = 5 /\ EvMask(PointerEvs[3]) = 1 /\ EvMask(PointerEvs[4]) = 1

-----------------------------------------------------------------------------
(* The claim that the two captures behave the same.                        *)

\* how the receive loop of tool t ends; "none": it waits for bytes that do not come
LoopResult(how, c, fb) == [loopEnd |-> how, consumed |-> c, framebuffer |-> fb]

RECURSIVE RectsRun(_, _, _, _, _, _)
\* the rectangles of an update, left of them to read: the loop of CapRect, run on the
\* bytes s with buffer fb, c bytes read so far, display width w
RectsRun(t, s, fb, c, w, left) ==
    IF left = 0 THEN LoopResult("update", c, fb)
    ELSE IF Len(s) < RectHeaderLen THEN LoopResult("none", c, fb)
    ELSE LET r == UnpackRect(SubSeq(s, 1, RectHeaderLen))
             n == r.w * r.h * BytesPerPixel
         IN IF r.enc = RawEncoding
               THEN IF Len(s) < RectHeaderLen + n THEN LoopResult("none", c + RectHeaderLen, fb)
                    ELSE RectsRun(t, SubSeq(s, RectHeaderLen + n + 1, Len(s)),
                                  CopyRows(fb, SubSeq(s, RectHeaderLen + 1, RectHeaderLen + n), r, 0, w),
                                  c + RectHeaderLen + n, w, left - 1)
               ELSE RectsRun(t, SubSeq(s, RectHeaderLen + 1, Len(s)), fb, c + RectHeaderLen, w,
                             AfterUnsupported(t, left))

RECURSIVE LoopRun(_, _, _, _, _)
\* the receive loop of tool t (CapUpdate, CapColorMap, CapBell, CapCutText, CapUnknown)
\* run on the bytes s
LoopRun(t, s, fb, c, w) ==
    IF s = <<>> THEN LoopResult("none", c, fb)
    ELSE IF s[1] = 0
        THEN IF Len(s) < 4 THEN LoopResult("none", c, fb)
             ELSE RectsRun(t, SubSeq(s, 5, Len(s)), fb, c + 4, w, UnpackU16(SubSeq(s, 3, 4)))
    ELSE IF s[1] = 1
        THEN IF Len(s) < 6 \/ Len(s) < 6 + UnpackU16(SubSeq(s, 5, 6)) * 6
                THEN LoopResult("none", c, fb)
                ELSE LoopRun(t, SubSeq(s, 7 + UnpackU16(SubSeq(s, 5, 6)) * 6, Len(s)), fb,
                             c + 6 + UnpackU16(SubSeq(s, 5, 6)) * 6, w)
    ELSE IF s[1] = 2 THEN LoopRun(t, Tail(s), fb, c + 1, w)
    ELSE IF s[1] = 3
        THEN IF Len(s) < 8 \/ Len(s) < 8 + UnpackU32(SubSeq(s, 5, 8))
                THEN LoopResult("none", c, fb)
                ELSE LoopRun(t, SubSeq(s, 9 + UnpackU32(SubSeq(s, 5, 8)), Len(s)), fb,
                             c + 8 + UnpackU32(SubSeq(s, 5, 8)), w)
    ELSE LoopResult("unknown", c + 1, fb)

\* the capture of tool t on what the server of this run sent after the handshake
CaptureOf(t) ==
    LoopRun(t, CapBytes(upd), Rep(0, width * height * BytesPerPixel), 0, width)

OtherTool == IF tool = "control" THEN "screenshot" ELSE "control"

\* the receive loop of this run has ended, and how
ThisCapture == LoopResult(loopEnd, consumed, framebuffer)

\* C22: on every stream of server messages after the handshake the two captures
\* behave the same: when the receive loop of one has ended, the other's, run on the
\* same bytes, has read as many bytes, ended in the same way and made the same pixel
\* buffer, rectangles that are not Raw included.
C22_CapturesBehaveTheSame ==
    (pc \in AfterLoopPcs /\ err = NoErr /\ action = "screenshot") =>
        CaptureOf(OtherTool) = ThisCapture

\* what the loop of a run has made is what LoopRun gives for the run's own tool
LoopRunIsTheLoop ==
    (pc \in AfterLoopPcs /\ err = NoErr /\ action = "screenshot") =>
        CaptureOf(tool) = ThisCapture

=============================================================================
